---- MODULE Spec2Model ----
(***************************************************************************)
(* Model of the incremental XML stanza parser of jackal (xml/parser.go)    *)
(* and of the shutdown of its BadgerDB storage (storage/badgerdb).         *)
(*                                                                         *)
(* The parser state is the Parser struct; the tokenizer (encoding/xml's    *)
(* Decoder) is modelled by the token it delivers on each RawToken call and *)
(* by its InputOffset, which is the byte position of the end of the last   *)
(* token delivered.  One step of the model is one iteration of the loop of *)
(* ParseElement: a RawToken read followed by everything the code does with *)
(* that token, up to the next read or up to the return of the call.  pc    *)
(* tells whether a call is in progress ("loop": the next read is the one   *)
(* at the bottom of the loop) or not ("idle": the next read is the first   *)
(* read of a new call).                                                    *)
(*                                                                         *)
(* The storage is modelled by its background goroutine (Storage.loop), the *)
(* database handle and the goroutines that call Storage.Shutdown; one step *)
(* is one statement of loop or of Shutdown, and a send on the unbuffered   *)
(* doneCh is one step of the sender and of the receiving select together.  *)
(***************************************************************************)
EXTENDS Integers, Sequences, FiniteSets, TLC

VARIABLES
    nextElement,    \* Parser.nextElement: Nil or Ptr(element)
    parsingIndex,   \* Parser.parsingIndex
    parsingStack,   \* Parser.parsingStack (Go index i is TLA+ index i+1)
    inElement,      \* Parser.inElement
    lastOffset,     \* Parser.lastOffset
    maxStanzaSize,  \* Parser.maxStanzaSize
    offset,         \* Parser.dec.InputOffset()
    pc,             \* "idle", "loop" or "panic"
    result,         \* what the last finished call returned
    tok,            \* the token (or read failure) of the last RawToken call
    pre,            \* the Parser fields, pc and offset when that read was made
    stream,         \* history: every token delivered so far, in order
    completed,      \* history: every top-level unit whose completing token was read
    returned,       \* history: every non-nil XElement returned, with the offset
    mismatchAt,     \* history: position in stream of the first mismatched end
                    \* tag that passed the size check, 0 when there is none
    tooLargeAt,     \* history: position in stream of the first token on which
                    \* a call returned ErrTooLargeStanza, 0 when there is none
    db,             \* Storage.db: "open" or "closed"
    loopPc,         \* where the goroutine running Storage.loop is
    loopCh,         \* the ch received in loop: the caller that made it, 0 if none
    ticker,         \* tc in loop: "none", "running" or "stopped"
    shutdownPc,     \* where each call of Storage.Shutdown is
    chClosed,       \* whether the ch made by each call of Shutdown is closed
    purges,         \* number of db.PurgeOlderVersions calls made
    gcs             \* number of db.RunValueLogGC calls made

parserVars == <<nextElement, parsingIndex, parsingStack, inElement, lastOffset,
                maxStanzaSize, offset, pc, result, tok, pre, stream, completed,
                returned, mismatchAt, tooLargeAt>>

storageVars == <<db, loopPc, loopCh, ticker, shutdownPc, chClosed, purges, gcs>>

vars == <<parserVars, storageVars>>

-----------------------------------------------------------------------------
(* Bounds and inputs *)

\* Number of tokens the tokenizer delivers in one behaviour.
MaxTokens == 5

\* The values of maxStanzaSize given to NewParser.
StanzaSizes == {0, 10, 25}

\* Number of calls of Storage.Shutdown in one behaviour.
NumCallers == 3

\* Number of ticks of the ticker of Storage.loop in one behaviour.
MaxTicks == 2

-----------------------------------------------------------------------------
(* Program constants *)

rootElementIndex == -1

streamName == "stream"

ErrTooLargeStanza == "too large stanza"

ErrStreamClosedByPeer == "stream closed by peer"

\* The errors of Decoder.RawToken: the end of the input, malformed input.
RawTokenErrors == {"EOF", "XML syntax error"}

\* A nil error, and the marker of a call that has not returned yet.
NoErr == "nil"
Pending == "pending"

\* A nil *Element, and a pointer to an element.  Nil is also the nil XElement
\* of the statements return nil, err.
Nil == <<>>
Ptr(e) == <<e>>

\* The XElement made of a *Element by return ret, nil: an interface value
\* that holds the pointer and is not nil, even when the pointer is.
XElement(ptr) == <<ptr>>

-----------------------------------------------------------------------------
(* Tokens of encoding/xml as RawToken delivers them *)

XmlName(space, local) == [Space |-> space, Local |-> local]

XmlAttr(space, local, value) == [Name |-> XmlName(space, local), Value |-> value]

NoName == XmlName("", "")

ProcInst == [kind |-> "ProcInst", Name |-> XmlName("", "xml"), Attr |-> <<>>, Data |-> ""]

StartElement(n, attrs) == [kind |-> "StartElement", Name |-> n, Attr |-> attrs, Data |-> ""]

EndElement(n) == [kind |-> "EndElement", Name |-> n, Attr |-> <<>>, Data |-> ""]

CharData(s) == [kind |-> "CharData", Name |-> NoName, Attr |-> <<>>, Data |-> s]

Comment(s) == [kind |-> "Comment", Name |-> NoName, Attr |-> <<>>, Data |-> s]

Directive(s) == [kind |-> "Directive", Name |-> NoName, Attr |-> <<>>, Data |-> s]

\* The value of tok after a failed read, and before the first read.
ReadError(err) == [kind |-> "error", Name |-> NoName, Attr |-> <<>>, Data |-> err]
NoToken == [kind |-> "none", Name |-> NoName, Attr |-> <<>>, Data |-> ""]

NameA == XmlName("", "a")
NameB == XmlName("x", "b")
NameStream == XmlName("stream", "stream")

AttrsB == <<XmlAttr("", "id", "1"), XmlAttr("x", "l", "2")>>
AttrsStream == <<XmlAttr("", "to", "x")>>

StartTokens == {StartElement(NameA, <<>>), StartElement(NameB, AttrsB),
                StartElement(NameStream, AttrsStream)}

EndTokens == {EndElement(NameA), EndElement(NameB), EndElement(NameStream)}

CharDataTokens == {CharData("x"), CharData("yyyy")}

\* The tokens no case of the switch of ParseElement names.
OtherTokens == {Comment("c"), Directive("DOCTYPE x")}

\* The raw name as it stands in the input: prefix:local or local.
RawNameLen(n) == IF Len(n.Space) > 0 THEN Len(n.Space) + 1 + Len(n.Local)
                 ELSE Len(n.Local)

RECURSIVE AttrsLen(_)
AttrsLen(attrs) ==
    IF attrs = <<>> THEN 0
    ELSE 1 + RawNameLen(Head(attrs).Name) + 2 + Len(Head(attrs).Value) + 1
         + AttrsLen(Tail(attrs))

\* Bytes of input the token takes: <n k="v">, </n>, the text, <?xml?>,
\* <!--c-->, <!DOCTYPE x>.
TokenLen(t) ==
    CASE t.kind = "StartElement" -> 1 + RawNameLen(t.Name) + AttrsLen(t.Attr) + 1
      [] t.kind = "EndElement" -> 2 + RawNameLen(t.Name) + 1
      [] t.kind = "CharData" -> Len(t.Data)
      [] t.kind = "ProcInst" -> 2 + Len(t.Name.Local) + 2
      [] t.kind = "Comment" -> 4 + Len(t.Data) + 3
      [] t.kind = "Directive" -> 2 + Len(t.Data) + 1

-----------------------------------------------------------------------------
(* Element, as the parser uses it *)

NewElement(name, attrs) ==
    [name |-> name, attrs |-> attrs, text |-> "", elements |-> <<>>]

ElementName(e) == e.name

AppendElement(parent, child) ==
    [parent EXCEPT !.elements = Append(@, child)]

RECURSIVE WithoutAttr(_, _)
WithoutAttr(attrs, label) ==
    IF attrs = <<>> THEN <<>>
    ELSE IF Head(attrs).label = label THEN WithoutAttr(Tail(attrs), label)
         ELSE <<Head(attrs)>> \o WithoutAttr(Tail(attrs), label)

RECURSIVE attributeSet(_)
attributeSet(attrs) ==
    IF attrs = <<>> THEN <<>>
    ELSE LET n == Len(attrs)
             last == attrs[n]
         IN  Append(WithoutAttr(attributeSet(SubSeq(attrs, 1, n - 1)), last.label), last)

xmlName(space, local) ==
    IF Len(space) > 0 THEN space \o ":" \o local ELSE local

-----------------------------------------------------------------------------
(* The Parser struct and its methods *)

Parser == [nextElement |-> nextElement, parsingIndex |-> parsingIndex,
           parsingStack |-> parsingStack, inElement |-> inElement,
           lastOffset |-> lastOffset]

NewParser(size) == [nextElement |-> Nil, parsingIndex |-> rootElementIndex,
                    parsingStack |-> <<>>, inElement |-> FALSE, lastOffset |-> 0]

\* parsingStack[i] of the Go code is defined for 0 <= i < len(parsingStack).
InRange(p, i) == i >= 0 /\ i < Len(p.parsingStack)

At(p, i) == p.parsingStack[i + 1]

RECURSIVE startAttrs(_)
startAttrs(tattr) ==
    IF tattr = <<>> THEN <<>>
    ELSE <<[label |-> xmlName(Head(tattr).Name.Space, Head(tattr).Name.Local),
            value |-> Head(tattr).Value]>> \o startAttrs(Tail(tattr))

startElement(p, t) ==
    LET name == IF Len(t.Name.Space) > 0
                THEN t.Name.Space \o ":" \o t.Name.Local
                ELSE t.Name.Local
        element == NewElement(name, attributeSet(startAttrs(t.Attr)))
    IN  [p EXCEPT !.parsingStack = Append(@, element),
                  !.parsingIndex = @ + 1,
                  !.inElement = TRUE]

setElementText(p, t) ==
    [p EXCEPT !.parsingStack[p.parsingIndex + 1].text = t.Data]

\* Faulty variant of closeElement: the stack keeps the closed element.
closeElementKeepsStack(p) ==
    LET element == At(p, p.parsingIndex)
        index == p.parsingIndex - 1
    IN  IF index = rootElementIndex
        THEN [p EXCEPT !.parsingIndex = index,
                       !.nextElement = Ptr(element), !.inElement = FALSE]
        ELSE [p EXCEPT !.parsingStack[index + 1] = AppendElement(@, element),
                       !.parsingIndex = index, !.inElement = FALSE]

closeElement(p) ==
    LET element == At(p, p.parsingIndex)
        stack == SubSeq(p.parsingStack, 1, p.parsingIndex)
        index == p.parsingIndex - 1
    IN  IF index = rootElementIndex
        THEN [p EXCEPT !.parsingStack = stack, !.parsingIndex = index,
                       !.nextElement = Ptr(element), !.inElement = FALSE]
        ELSE [p EXCEPT !.parsingStack =
                           [stack EXCEPT ![index + 1] = AppendElement(@, element)],
                       !.parsingIndex = index, !.inElement = FALSE]

\* endElement's two results: the parser after it, and the error it returns.
endElementMatches(p, t) ==
    ElementName(At(p, p.parsingIndex)) = xmlName(t.Name.Space, t.Name.Local)

endElement(p, t) ==
    IF ~endElementMatches(p, t)
    THEN [p |-> p, err |-> "unexpected end element"]
    ELSE [p |-> closeElement(p), err |-> NoErr]

isStream(t) == t.Name.Local = streamName /\ t.Name.Space = streamName

\* Faulty variant of tooLarge: the limit itself is rejected.
tooLargeAtLimit(p, off) == maxStanzaSize > 0 /\ off - p.lastOffset >= maxStanzaSize

\* The size check at the top of the loop of ParseElement.
tooLarge(p, off) == maxStanzaSize > 0 /\ off - p.lastOffset > maxStanzaSize

\* The code after the label done.
done(p, off) ==
    [p |-> [p EXCEPT !.lastOffset = off, !.nextElement = Nil],
     ret |-> XElement(p.nextElement)]

-----------------------------------------------------------------------------
(* One iteration of the loop of ParseElement on token t.  The outcome is   *)
(* the parser after it, whether the call goes on ("loop"), returns         *)
(* ("idle") or panics, and what it returns.                                *)

Continue(p) == [p |-> p, pc |-> "loop", val |-> Nil, err |-> Pending]

Return(p, val, err) == [p |-> p, pc |-> "idle", val |-> val, err |-> err]

Panic(p) == [p |-> p, pc |-> "panic", val |-> Nil, err |-> "panic"]

Done(p, off) ==
    LET d == done(p, off) IN Return(d.p, d.ret, NoErr)

\* Faulty variant of onReadError: the read is tried again.
onReadErrorRetries(p, err) == Continue(p)

\* RawToken returned err: the first read of the call, or a later one.
onReadError(p, err) == Return(p, Nil, err)

\* Faulty variant of onProcInst: the elements under construction are dropped.
onProcInstResets(p, t, off) ==
    Return([p EXCEPT !.parsingStack = <<>>, !.parsingIndex = rootElementIndex,
                     !.inElement = FALSE], Nil, NoErr)

onProcInst(p, t, off) == Return(p, Nil, NoErr)

\* Faulty variant of onStartElement: the stream start tag is an ordinary start tag.
onStartElementOrdinary(p, t, off) == Continue(startElement(p, t))

onStartElement(p, t, off) ==
    LET p1 == startElement(p, t)
    IN  IF isStream(t) THEN Done(closeElement(p1), off) ELSE Continue(p1)

onCharData(p, t, off) ==
    IF ~p.inElement THEN Return(p, Nil, NoErr)
    ELSE IF ~InRange(p, p.parsingIndex) THEN Panic(p)
    ELSE Continue(setElementText(p, t))

\* Faulty variant of onEndElement: the stream end tag is an ordinary end tag.
onEndElementOrdinary(p, t, off) ==
    IF ~InRange(p, p.parsingIndex) THEN Panic(p)
    ELSE LET p1 == endElement(p, t).p
         IN  IF p1.parsingIndex = rootElementIndex THEN Done(p1, off)
             ELSE Continue(p1)

onEndElement(p, t, off) ==
    IF isStream(t) THEN Return(p, Nil, ErrStreamClosedByPeer)
    ELSE IF ~InRange(p, p.parsingIndex) THEN Panic(p)
    ELSE LET p1 == endElement(p, t).p
         IN  IF p1.parsingIndex = rootElementIndex THEN Done(p1, off)
             ELSE Continue(p1)

\* A token of a type the switch has no case for: nothing is done with it.
onOther(p, t, off) == Continue(p)

\* The switch on the type of the token.
classify(p, t, off) ==
    CASE t.kind = "ProcInst" -> onProcInst(p, t, off)
      [] t.kind = "StartElement" -> onStartElement(p, t, off)
      [] t.kind = "CharData" -> onCharData(p, t, off)
      [] t.kind = "EndElement" -> onEndElement(p, t, off)
      [] t.kind \in {"Comment", "Directive"} -> onOther(p, t, off)

\* Faulty variant of iteration: a rejected token starts a new size budget.
iterationNewBudget(p, t, off) ==
    IF tooLarge(p, off)
    THEN Return([p EXCEPT !.lastOffset = off], Nil, ErrTooLargeStanza)
    ELSE classify(p, t, off)

iteration(p, t, off) ==
    IF tooLarge(p, off) THEN Return(p, Nil, ErrTooLargeStanza)
    ELSE classify(p, t, off)

-----------------------------------------------------------------------------------------------------------------------------------------------------
(* Specification *)

Snapshot == [p |-> Parser, pc |-> pc, offset |-> offset]

\* The Storage after New: the database is open, the goroutine of loop is
\* started, and no call of Shutdown has been made.
Callers == 1 .. NumCallers

New ==
    /\ db = "open"
    /\ loopPc = "start"
    /\ loopCh = 0
    /\ ticker = "none"
    /\ shutdownPc = [c \in Callers |-> "idle"]
    /\ chClosed = [c \in Callers |-> FALSE]
    /\ purges = 0
    /\ gcs = 0

Init ==
    /\ New
    /\ maxStanzaSize \in StanzaSizes
    /\ nextElement = NewParser(maxStanzaSize).nextElement
    /\ parsingIndex = NewParser(maxStanzaSize).parsingIndex
    /\ parsingStack = NewParser(maxStanzaSize).parsingStack
    /\ inElement = NewParser(maxStanzaSize).inElement
    /\ lastOffset = NewParser(maxStanzaSize).lastOffset
    /\ offset = 0
    /\ pc = "idle"
    /\ result = [val |-> Nil, err |-> Pending]
    /\ tok = NoToken
    /\ pre = [p |-> NewParser(maxStanzaSize), pc |-> "idle", offset |-> 0]
    /\ stream = <<>>
    /\ completed = <<>>
    /\ returned = <<>>
    /\ mismatchAt = 0
    /\ tooLargeAt = 0

\* The parser fields, the position and the result after an iteration.
Apply(o) ==
    /\ nextElement' = o.p.nextElement
    /\ parsingIndex' = o.p.parsingIndex
    /\ parsingStack' = o.p.parsingStack
    /\ inElement' = o.p.inElement
    /\ lastOffset' = o.p.lastOffset
    /\ pc' = o.pc
    /\ result' = [val |-> o.val, err |-> o.err]

\* Token t, read with the parser in state p and taking the offset to off, is
\* the completing token of a top-level unit: a matching end tag at depth 0, or
\* the stream-open start tag at depth -1.
Completes(p, t, off) ==
    /\ ~tooLarge(p, off)
    /\ \/ /\ t.kind = "EndElement" /\ ~isStream(t)
          /\ p.parsingIndex = 0 /\ InRange(p, 0)
          /\ At(p, 0).name = xmlName(t.Name.Space, t.Name.Local)
       \/ /\ t.kind = "StartElement" /\ isStream(t)
          /\ p.parsingIndex = rootElementIndex

\* Token t is a non-stream end tag that passes the size check and does not
\* name the element on top of the stack.
Mismatches(p, t, off) ==
    /\ ~tooLarge(p, off)
    /\ t.kind = "EndElement" /\ ~isStream(t)
    /\ InRange(p, p.parsingIndex)
    /\ At(p, p.parsingIndex).name # xmlName(t.Name.Space, t.Name.Local)

\* The unit that token completes.
CompletedUnit(p, t) ==
    IF t.kind = "EndElement" THEN At(p, 0)
    ELSE NewElement(xmlName(t.Name.Space, t.Name.Local),
                    attributeSet(startAttrs(t.Attr)))

\* RawToken delivers token t and the loop runs once on it.
Read(t) ==
    /\ pc \in {"idle", "loop"}
    /\ Len(stream) < MaxTokens
    /\ LET off == offset + TokenLen(t)
           o == iteration(Parser, t, off)
       IN  /\ offset' = off
           /\ Apply(o)
           /\ completed' = IF Completes(Parser, t, off)
                           THEN Append(completed, CompletedUnit(Parser, t))
                           ELSE completed
           /\ returned' = IF o.val # Nil
                          THEN Append(returned, [element |-> o.val[1], offset |-> off,
                                                 upto |-> Len(stream) + 1])
                          ELSE returned
           /\ mismatchAt' = IF mismatchAt = 0 /\ Mismatches(Parser, t, off)
                            THEN Len(stream) + 1 ELSE mismatchAt
           /\ tooLargeAt' = IF tooLargeAt = 0 /\ o.err = ErrTooLargeStanza
                            THEN Len(stream) + 1 ELSE tooLargeAt
    /\ tok' = t
    /\ pre' = Snapshot
    /\ stream' = Append(stream, t)
    /\ UNCHANGED <<maxStanzaSize, storageVars>>

ReadProcInst == Read(ProcInst)

ReadStartElement == \E t \in StartTokens : Read(t)

ReadCharData == \E t \in CharDataTokens : Read(t)

ReadEndElement == \E t \in EndTokens : Read(t)

ReadOther == \E t \in OtherTokens : Read(t)

\* RawToken fails: the first read of a call, or the read at the bottom of the loop.
ReadFails ==
    /\ pc \in {"idle", "loop"}
    /\ \E err \in RawTokenErrors :
          /\ tok' = ReadError(err)
          /\ Apply(onReadError(Parser, err))
    /\ pre' = Snapshot
    /\ UNCHANGED <<maxStanzaSize, offset, stream, completed, returned, mismatchAt,
                   tooLargeAt, storageVars>>

Next ==
    \/ ReadProcInst
    \/ ReadStartElement
    \/ ReadCharData
    \/ ReadEndElement
    \/ ReadOther
    \/ ReadFails

Spec == Init /\ [][Next]_vars

-----------------------------------------------------------------------------
(* Storage: loop and Shutdown *)

\* loop: tc := time.NewTicker(time.Minute), and the loop is entered.
LoopStart ==
    /\ loopPc = "start"
    /\ ticker' = "running"
    /\ loopPc' = "select"
    /\ UNCHANGED <<db, loopCh, shutdownPc, chClosed, purges, gcs, parserVars>>

\* loop: the select takes case <-tc.C and calls b.db.PurgeOlderVersions().
LoopTick ==
    /\ loopPc = "select"
    /\ ticker = "running"
    /\ purges < MaxTicks
    /\ purges' = purges + 1
    /\ loopPc' = "gc"
    /\ UNCHANGED <<db, loopCh, ticker, shutdownPc, chClosed, gcs, parserVars>>

\* loop: b.db.RunValueLogGC(0.5), and back to the select.
LoopGC ==
    /\ loopPc = "gc"
    /\ gcs' = gcs + 1
    /\ loopPc' = "select"
    /\ UNCHANGED <<db, loopCh, ticker, shutdownPc, chClosed, purges, parserVars>>

\* Shutdown: ch := make(chan bool).
ShutdownCall(c) ==
    /\ shutdownPc[c] = "idle"
    /\ shutdownPc' = [shutdownPc EXCEPT ![c] = "send"]
    /\ chClosed' = [chClosed EXCEPT ![c] = FALSE]
    /\ UNCHANGED <<db, loopPc, loopCh, ticker, purges, gcs, parserVars>>

\* Shutdown: b.doneCh <- ch, received by case ch := <-b.doneCh of the select.
\* doneCh is unbuffered: the send completes only with the select receiving.
ShutdownSend(c) ==
    /\ shutdownPc[c] = "send"
    /\ loopPc = "select"
    /\ shutdownPc' = [shutdownPc EXCEPT ![c] = "recv"]
    /\ loopCh' = c
    /\ loopPc' = "close"
    /\ UNCHANGED <<db, ticker, chClosed, purges, gcs, parserVars>>

\* loop: b.db.Close().
LoopClose ==
    /\ loopPc = "close"
    /\ db' = "closed"
    /\ loopPc' = "closeCh"
    /\ UNCHANGED <<loopCh, ticker, shutdownPc, chClosed, purges, gcs, parserVars>>

\* Faulty variant of LoopCloseCh: the loop goes on after close(ch).
LoopCloseChGoesOn ==
    /\ loopPc = "closeCh"
    /\ chClosed' = [chClosed EXCEPT ![loopCh] = TRUE]
    /\ loopPc' = "select"
    /\ UNCHANGED <<db, loopCh, ticker, shutdownPc, purges, gcs, parserVars>>

\* loop: close(ch).
LoopCloseCh ==
    /\ loopPc = "closeCh"
    /\ chClosed' = [chClosed EXCEPT ![loopCh] = TRUE]
    /\ loopPc' = "return"
    /\ UNCHANGED <<db, loopCh, ticker, shutdownPc, purges, gcs, parserVars>>

\* loop: return, which runs the deferred tc.Stop().
LoopReturn ==
    /\ loopPc = "return"
    /\ ticker' = "stopped"
    /\ loopPc' = "returned"
    /\ UNCHANGED <<db, loopCh, shutdownPc, chClosed, purges, gcs, parserVars>>

\* Shutdown: <-ch, which a closed ch lets through, and the call returns.
ShutdownRecv(c) ==
    /\ shutdownPc[c] = "recv"
    /\ chClosed[c]
    /\ shutdownPc' = [shutdownPc EXCEPT ![c] = "returned"]
    /\ UNCHANGED <<db, loopPc, loopCh, ticker, chClosed, purges, gcs, parserVars>>

NextStorage ==
    \/ LoopStart
    \/ LoopTick
    \/ LoopGC
    \/ LoopClose
    \/ LoopCloseCh
    \/ LoopReturn
    \/ \E c \in Callers : ShutdownCall(c)
    \/ \E c \in Callers : ShutdownSend(c)
    \/ \E c \in Callers : ShutdownRecv(c)

\* The storage alone: no parser is at work.
InitStorage == Init /\ maxStanzaSize = 0

SpecStorage == InitStorage /\ [][NextStorage]_vars

-----------------------------------------------------------------------------
(* Vocabulary of the properties.  In a state reached by a read, tok is the *)
(* token read, pre the parser before the read, offset the tokenizer offset *)
(* after it, and pc and result tell whether and what the call returned.    *)

IsToken ==
    tok.kind \in {"ProcInst", "StartElement", "CharData", "EndElement",
                  "Comment", "Directive"}

IsStreamName(n) == n.Space = "stream" /\ n.Local = "stream"

QName(n) == IF n.Space = "" THEN n.Local ELSE n.Space \o ":" \o n.Local

\* The size check fails on the token just read.
Oversize == maxStanzaSize > 0 /\ offset - pre.p.lastOffset > maxStanzaSize

Returned == pc = "idle" /\ result.err # Pending

\* The call returned an XElement that is not nil: what a caller testing
\* elem != nil takes for an element.
ReturnedValue == Returned /\ result.val # Nil

\* The XElement returned holds an element, and not a nil pointer.
ReturnedElement == ReturnedValue /\ result.val[1] # Nil

ReturnedNilNil == Returned /\ result.val = Nil /\ result.err = NoErr

ReturnedError == Returned /\ result.val = Nil /\ result.err # NoErr

ParserUnchanged == Parser = pre.p

-----------------------------------------------------------------------------
(* C1 *)

\* The token just read is a non-stream end tag whose name differs from the
\* name of the element on top of the stack.
MismatchRead ==
    /\ tok.kind = "EndElement" /\ ~IsStreamName(tok.Name)
    /\ pre.p.parsingIndex >= 0
    /\ pre.p.parsingStack[pre.p.parsingIndex + 1].name # QName(tok.Name)

\* C1: a call that reads a non-stream end tag whose name differs from the name
\* of the element on top of the parse stack returns an error on that token, and
\* no element is returned once such a token has been read.
C1_MismatchedEndTagFails ==
    /\ MismatchRead => ReturnedError
    /\ \A i \in 1..Len(returned) :
          mismatchAt > 0 => returned[i].upto < mismatchAt

\* The second half of C1 alone: an element is returned after a mismatch.
C1_NoElementAfterMismatch ==
    \A i \in 1..Len(returned) : mismatchAt > 0 => returned[i].upto < mismatchAt

-----------------------------------------------------------------------------
(* C2 *)

\* The offset at which the element returned before the i-th value completed,
\* 0 when there is none.
PreviousCompletion(i) ==
    LET before == {j \in 1..(i - 1) : returned[j].element # Nil}
    IN  IF before = {} THEN 0
        ELSE returned[CHOOSE j \in before : \A k \in before : k <= j].offset

\* C2: with a positive maxStanzaSize, every returned element completes at most
\* maxStanzaSize bytes past the offset at which the previously returned element
\* completed (past 0 for the first).
C2_ReturnedWithinBudget ==
    maxStanzaSize > 0 =>
        \A i \in 1..Len(returned) :
            returned[i].element # Nil =>
                returned[i].offset - PreviousCompletion(i) <= maxStanzaSize

-----------------------------------------------------------------------------
(* C3 *)

\* C3: after each token read, the call returns ErrTooLargeStanza exactly when
\* maxStanzaSize > 0 and offset - lastOffset > maxStanzaSize, whatever the kind
\* of the token; with maxStanzaSize = 0 no call returns ErrTooLargeStanza.
C3_TooLargeIffOverBudget ==
    /\ IsToken =>
          ((Returned /\ result.val = Nil /\ result.err = ErrTooLargeStanza)
             <=> (maxStanzaSize > 0 /\ offset - pre.p.lastOffset > maxStanzaSize))
    /\ maxStanzaSize = 0 => result.err # ErrTooLargeStanza

\* The size check rejects a stream end tag that is one byte over the budget.
C3_Witness ==
    /\ result.err = ErrTooLargeStanza
    /\ tok.kind = "EndElement" /\ IsStreamName(tok.Name)
    /\ offset - pre.p.lastOffset = maxStanzaSize + 1

\* It rejects a processing instruction and top-level character data too.
C3_WitnessProcInst == result.err = ErrTooLargeStanza /\ tok.kind = "ProcInst"

C3_WitnessTopLevelText ==
    /\ result.err = ErrTooLargeStanza
    /\ tok.kind = "CharData" /\ pre.p.parsingIndex = -1

-----------------------------------------------------------------------------
(* C4 *)

Fits(n) == maxStanzaSize = 0 \/ n <= maxStanzaSize

\* ts is a sequence of well-formed stanzas (the last one possibly unfinished)
\* separated by top-level character data, each stanza within the budget on its
\* own; open is the path of open names and size the bytes of the open stanza.
RECURSIVE CleanStream(_, _, _)
CleanStream(ts, open, size) ==
    IF ts = <<>> THEN TRUE
    ELSE LET t == Head(ts)
             n == size + TokenLen(t)
         IN  IF open = <<>>
             THEN CASE t.kind = "CharData" -> CleanStream(Tail(ts), <<>>, 0)
                    [] t.kind = "StartElement" ->
                         /\ ~IsStreamName(t.Name)
                         /\ Fits(TokenLen(t))
                         /\ CleanStream(Tail(ts), <<t.Name>>, TokenLen(t))
                    [] OTHER -> FALSE
             ELSE /\ Fits(n)
                  /\ CASE t.kind = "CharData" -> CleanStream(Tail(ts), open, n)
                       [] t.kind = "StartElement" ->
                            /\ ~IsStreamName(t.Name)
                            /\ CleanStream(Tail(ts), Append(open, t.Name), n)
                       [] t.kind = "EndElement" ->
                            /\ open[Len(open)] = t.Name
                            /\ CleanStream(Tail(ts), SubSeq(open, 1, Len(open) - 1),
                                           IF Len(open) = 1 THEN 0 ELSE n)
                       [] OTHER -> FALSE

\* The number of stanzas of a clean stream that are finished.
RECURSIVE Finished(_, _)
Finished(ts, depth) ==
    IF ts = <<>> THEN 0
    ELSE CASE Head(ts).kind = "StartElement" -> Finished(Tail(ts), depth + 1)
           [] Head(ts).kind = "EndElement" ->
                (IF depth = 1 THEN 1 ELSE 0) + Finished(Tail(ts), depth - 1)
           [] OTHER -> Finished(Tail(ts), depth)

\* C4: on a stream of well-formed stanzas separated by top-level character
\* data, each stanza within maxStanzaSize on its own, no call returns an error
\* and every finished stanza has been returned.
C4_TopLevelTextNeverFails ==
    (IsToken /\ CleanStream(stream, <<>>, 0)) =>
        /\ pc # "panic"
        /\ result.err \in {NoErr, Pending}
        /\ Len(returned) = Finished(stream, 0)

-----------------------------------------------------------------------------
(* C5 *)

\* The token just read is the stream start tag, read at depth -1.
StreamOpenRead ==
    /\ tok.kind = "StartElement" /\ IsStreamName(tok.Name)
    /\ pre.p.parsingIndex = -1

\* The call returned the element of the start tag just read, complete: its
\* name and attributes set, no children, empty text; the stack is empty and
\* the depth is -1.
StreamOpenReturned ==
    /\ ReturnedElement /\ result.err = NoErr
    /\ LET e == result.val[1][1]
       IN  /\ e.name = "stream:stream"
           /\ Len(e.attrs) = Len(tok.Attr)
           /\ \A i \in 1..Len(tok.Attr) :
                 /\ e.attrs[i].label = QName(tok.Attr[i].Name)
                 /\ e.attrs[i].value = tok.Attr[i].Value
           /\ e.elements = <<>>
           /\ e.text = ""
    /\ parsingStack = <<>>
    /\ parsingIndex = -1

\* C5 as stated: at depth -1, the call that reads the stream start tag returns
\* its element on that token.
C5_StreamOpenAlwaysReturned == StreamOpenRead => StreamOpenReturned

\* C5, amended: at depth -1, the call that reads the stream start tag returns
\* its element on that token, provided the size check passes on it.
C5_StreamOpenReturned == (StreamOpenRead /\ ~Oversize) => StreamOpenReturned

C5_Witness ==
    /\ StreamOpenRead /\ StreamOpenReturned
    /\ maxStanzaSize > 0
    /\ result.val[1][1].attrs # <<>>

-----------------------------------------------------------------------------
(* C6 *)

StreamCloseRead == tok.kind = "EndElement" /\ IsStreamName(tok.Name)

\* C6: a call that reads the stream end tag, the size check passing, returns
\* ErrStreamClosedByPeer and no element, at any depth, and leaves the parse
\* stack, the depth and lastOffset as they were.
C6_StreamClosedByPeer ==
    (StreamCloseRead /\ ~Oversize) =>
        /\ Returned
        /\ result = [val |-> Nil, err |-> ErrStreamClosedByPeer]
        /\ parsingStack = pre.p.parsingStack
        /\ parsingIndex = pre.p.parsingIndex
        /\ lastOffset = pre.p.lastOffset

\* The stream end tag is read inside two open elements, with a positive budget.
C6_Witness ==
    /\ StreamCloseRead /\ result.err = ErrStreamClosedByPeer
    /\ pre.p.parsingIndex >= 1
    /\ maxStanzaSize > 0

\* The stream end tag is read at the top level, after a first stanza.
C6_WitnessTopLevel ==
    /\ StreamCloseRead /\ result.err = ErrStreamClosedByPeer
    /\ pre.p.parsingIndex = -1 /\ returned # <<>>

-----------------------------------------------------------------------------
(* C7 *)

\* ts is one element with nested children and character data: tags properly
\* nested, no stream-named tag, nothing after the end tag of the element.
RECURSIVE WellFormed(_, _, _)
WellFormed(ts, open, started) ==
    IF ts = <<>> THEN open = <<>> /\ started
    ELSE LET t == Head(ts)
         IN  CASE t.kind = "StartElement" ->
                    /\ ~IsStreamName(t.Name)
                    /\ open # <<>> \/ ~started
                    /\ WellFormed(Tail(ts), Append(open, t.Name), TRUE)
               [] t.kind = "CharData" ->
                    /\ open # <<>>
                    /\ WellFormed(Tail(ts), open, started)
               [] t.kind = "EndElement" ->
                    /\ open # <<>>
                    /\ open[Len(open)] = t.Name
                    /\ WellFormed(Tail(ts), SubSeq(open, 1, Len(open) - 1), started)
               [] OTHER -> FALSE

RefElement(t) ==
    [name |-> QName(t.Name),
     attrs |-> [i \in 1..Len(t.Attr) |->
                  [label |-> QName(t.Attr[i].Name), value |-> t.Attr[i].Value]],
     text |-> "",
     elements |-> <<>>]

\* The reference builder: the tree of a well-formed token sequence.  path is
\* the path of open elements, the innermost last.
RECURSIVE RefBuild(_, _)
RefBuild(ts, path) ==
    LET t == Head(ts)
        n == Len(path)
    IN  CASE t.kind = "StartElement" ->
               RefBuild(Tail(ts), Append(path, RefElement(t)))
          [] t.kind = "CharData" ->
               RefBuild(Tail(ts), [path EXCEPT ![n].text = t.Data])
          [] t.kind = "EndElement" ->
               IF n = 1 THEN path[1]
               ELSE RefBuild(Tail(ts),
                             [SubSeq(path, 1, n - 1) EXCEPT
                                 ![n - 1].elements = Append(@, path[n])])

\* The tokens read since the element before the i-th returned one, up to the
\* token that completed the i-th.
UnitTokens(i) ==
    SubSeq(stream, (IF i = 1 THEN 0 ELSE returned[i - 1].upto) + 1, returned[i].upto)

\* C7: the element returned for a well-formed token sequence of one element
\* is the tree the reference builder gives for it.
C7_TreeIsReference ==
    \A i \in 1..Len(returned) :
        WellFormed(UnitTokens(i), <<>>, FALSE) =>
            returned[i].element = Ptr(RefBuild(UnitTokens(i), <<>>))

\* C7 without the text: names, attributes and children agree with the
\* reference at every level.
RECURSIVE NoText(_)
NoText(e) ==
    [name |-> e.name, attrs |-> e.attrs, text |-> "",
     elements |-> [i \in 1..Len(e.elements) |-> NoText(e.elements[i])]]

C7_ShapeIsReference ==
    \A i \in 1..Len(returned) :
        WellFormed(UnitTokens(i), <<>>, FALSE) =>
            /\ returned[i].element # Nil
            /\ NoText(returned[i].element[1]) = NoText(RefBuild(UnitTokens(i), <<>>))

-----------------------------------------------------------------------------
(* C8 *)

\* C8: the values returned are the completed top-level units, in the order
\* their completing tokens were read, each once; none waits in the result slot
\* between iterations.
C8_ReturnedAreCompletedUnits ==
    /\ [i \in 1..Len(returned) |-> returned[i].element]
          = [i \in 1..Len(completed) |-> Ptr(completed[i])]
    /\ nextElement = Nil

HoldsElement(r) == r.element # Nil

\* C8 for the values returned that hold an element: these are the completed
\* units, each once and in order.
C8_ElementsAreCompletedUnits ==
    LET elements == SelectSeq(returned, HoldsElement)
    IN  /\ [i \in 1..Len(elements) |-> elements[i].element]
              = [i \in 1..Len(completed) |-> Ptr(completed[i])]
        /\ nextElement = Nil

C8_Witness ==
    /\ Len(returned) >= 2
    /\ returned[1].element # returned[2].element
    /\ \E i \in 1..Len(stream) : i < returned[1].upto /\ stream[i].kind = "ProcInst"

-----------------------------------------------------------------------------
(* C9 *)

\* C9: when RawToken fails, on the first read of a call or on a later one, the
\* call returns that error and no element at once, and lastOffset and the
\* pending result slot are as they were.
C9_ReadErrorReturned ==
    tok.kind = "error" =>
        /\ Returned
        /\ result = [val |-> Nil, err |-> tok.Data]
        /\ lastOffset = pre.p.lastOffset
        /\ nextElement = pre.p.nextElement
        /\ offset = pre.offset

\* A read fails in the loop, inside an open element, after an element has been
\* returned.
C9_Witness ==
    /\ tok.kind = "error" /\ result.err = "EOF"
    /\ pre.pc = "loop" /\ pre.p.parsingIndex >= 0
    /\ lastOffset > 0

C9_WitnessFirstRead ==
    /\ tok.kind = "error" /\ result.err = "XML syntax error"
    /\ pre.pc = "idle"

-----------------------------------------------------------------------------
(* C10 *)

\* C10: character data read inside an open element (depth >= 0), the size
\* check passing, sets the text of the element on top of the stack and the
\* call goes on; a call returns (nil, nil) on character data only at depth -1.
C10_CharDataInsideSetsText ==
    (tok.kind = "CharData" /\ ~Oversize) =>
        /\ pre.p.parsingIndex >= 0 =>
              /\ pc = "loop"
              /\ parsingIndex = pre.p.parsingIndex
              /\ parsingStack[parsingIndex + 1].text = tok.Data
        /\ ReturnedNilNil => pre.p.parsingIndex = -1

-----------------------------------------------------------------------------
(* C11 *)

\* C11: after any token has been processed, inElement is true exactly when
\* the parser is inside an open element (parsingIndex >= 0).
C11_InElementIffInside == inElement <=> parsingIndex >= 0

-----------------------------------------------------------------------------
(* C12 *)

\* C12: lastOffset changes only in a call that returns a completed top-level
\* element with the parser back at depth -1, and is then the tokenizer offset;
\* every call that returns an element sets it so.
C12_LastOffsetOnlyOnCompletion ==
    /\ lastOffset # pre.p.lastOffset =>
          /\ ReturnedElement /\ result.err = NoErr
          /\ parsingIndex = -1
          /\ lastOffset = offset
    /\ ReturnedValue => lastOffset = offset

-----------------------------------------------------------------------------
(* C13 *)

\* C13 as stated: a call that reads a processing instruction returns
\* (nil, nil) on it and leaves the parser at the top level: empty parse stack,
\* depth -1.
C13_ProcInstDiscardsState ==
    tok.kind = "ProcInst" =>
        /\ ReturnedNilNil
        /\ parsingStack = <<>>
        /\ parsingIndex = -1

\* The same with the size check passing: the state is still not discarded.
C13_ProcInstInBudgetDiscardsState ==
    (tok.kind = "ProcInst" /\ ~Oversize) =>
        /\ ReturnedNilNil
        /\ parsingStack = <<>>
        /\ parsingIndex = -1

\* C13, amended: a call that reads a processing instruction, the size check
\* passing, returns (nil, nil) on it and leaves every field of the parser as
\* it was, the elements under construction included.
C13_ProcInstKeepsState ==
    (tok.kind = "ProcInst" /\ ~Oversize) =>
        /\ ReturnedNilNil
        /\ ParserUnchanged

\* A processing instruction is read two levels deep, in the loop.
C13_Witness ==
    /\ tok.kind = "ProcInst" /\ ReturnedNilNil
    /\ pre.pc = "loop" /\ pre.p.parsingIndex >= 1
    /\ parsingIndex = pre.p.parsingIndex

-----------------------------------------------------------------------------
(* C14 *)

\* The token just read is a non-stream end tag naming the element on top of
\* the stack.
MatchingEndRead ==
    /\ tok.kind = "EndElement" /\ ~IsStreamName(tok.Name)
    /\ pre.p.parsingIndex >= 0
    /\ pre.p.parsingStack[pre.p.parsingIndex + 1].name = QName(tok.Name)

OrdinaryStartRead == tok.kind = "StartElement" /\ ~IsStreamName(tok.Name)

AtTop == parsingIndex = -1 /\ parsingStack = <<>> /\ nextElement = Nil

\* C14: a call that returns an element leaves the parser at the top (depth -1,
\* empty stack, result slot cleared); the depth is never below -1; a token that
\* passes the size check raises it by one if it is a non-stream start tag,
\* lowers it by one if it is a matching end tag, and leaves it alone otherwise.
C14_DepthDiscipline ==
    /\ parsingIndex >= -1
    /\ ReturnedValue => AtTop
    /\ (IsToken /\ ~Oversize) =>
          parsingIndex = pre.p.parsingIndex
                         + (IF OrdinaryStartRead THEN 1 ELSE 0)
                         - (IF MatchingEndRead THEN 1 ELSE 0)
    /\ (IsToken /\ Oversize) => parsingIndex = pre.p.parsingIndex

\* C14 for the values returned that hold an element.
C14_DepthDisciplineOfElements ==
    /\ parsingIndex >= -1
    /\ ReturnedElement => AtTop
    /\ (IsToken /\ ~Oversize) =>
          parsingIndex = pre.p.parsingIndex
                         + (IF OrdinaryStartRead THEN 1 ELSE 0)
                         - (IF MatchingEndRead THEN 1 ELSE 0)
    /\ (IsToken /\ Oversize) => parsingIndex = pre.p.parsingIndex

\* An element with a child is returned on its matching end tag at depth 0.
C14_Witness ==
    /\ ReturnedElement
    /\ MatchingEndRead /\ pre.p.parsingIndex = 0
    /\ result.val[1][1].elements # <<>>
    /\ AtTop

-----------------------------------------------------------------------------
(* C15 *)

\* C15: of two character-data tokens read one after the other inside the same
\* open element, the size check passing, the second alone is the text of the
\* element.
C15_TextOverwritten ==
    (/\ tok.kind = "CharData" /\ ~Oversize
     /\ pre.p.parsingIndex >= 0
     /\ Len(stream) >= 2
     /\ stream[Len(stream) - 1].kind = "CharData"
     /\ stream[Len(stream) - 1].Data # tok.Data) =>
        /\ parsingIndex = pre.p.parsingIndex
        /\ parsingStack[parsingIndex + 1].text = tok.Data

-----------------------------------------------------------------------------
(* C16 *)

\* C16: a non-stream end tag read at depth -1, the size check passing, makes
\* the call return an error, and the parse stack is never indexed outside
\* 0..len-1.
C16_StrayEndTagFails ==
    /\ pc # "panic"
    /\ (/\ tok.kind = "EndElement" /\ ~IsStreamName(tok.Name)
        /\ pre.p.parsingIndex = -1 /\ ~Oversize) => ReturnedError

-----------------------------------------------------------------------------
(* C17 *)

\* C17: in every reachable state parsingIndex = len(parsingStack) - 1.
C17_IndexIsStackTop == parsingIndex = Len(parsingStack) - 1

\* A mismatched end tag has been rejected two levels deep.
C17_Witness == MismatchRead /\ ~Oversize /\ parsingIndex >= 1

\* A child has been closed and appended to its parent.
C17_WitnessAfterClose ==
    /\ MatchingEndRead /\ ~Oversize /\ pre.p.parsingIndex = 1 /\ parsingIndex = 0

-----------------------------------------------------------------------------
(* C18 *)

TooLargeSeen == tooLargeAt > 0

\* C18: ErrTooLargeStanza is absorbing.  Once a call has returned
\* ErrTooLargeStanza no call is left in progress and no later call returns an
\* element or (nil, nil): the last call returned ErrTooLargeStanza or the
\* error of the tokenizer, every later token read is rejected by the size
\* check, and the parser is the one the first failing call found.
C18_TooLargeIsAbsorbing ==
    TooLargeSeen =>
        /\ pc = "idle"
        /\ result.val = Nil
        /\ result.err \in {ErrTooLargeStanza} \cup RawTokenErrors
        /\ IsToken => result.err = ErrTooLargeStanza
        /\ tok.kind = "error" => result.err = tok.Data
        /\ ParserUnchanged

\* A later call, after the one that failed first, reads a start tag with
\* nothing open, which would otherwise begin a new stanza.
C18_Witness ==
    /\ TooLargeSeen
    /\ Len(stream) > tooLargeAt
    /\ tok.kind = "StartElement"
    /\ pre.pc = "idle"
    /\ pre.p.parsingIndex = rootElementIndex
    /\ result.err = ErrTooLargeStanza

\* A later call in which the tokenizer fails.
C18_WitnessReadError ==
    /\ TooLargeSeen
    /\ Len(stream) > tooLargeAt
    /\ tok.kind = "error"
    /\ result.err \in RawTokenErrors

-----------------------------------------------------------------------------
(* C19 *)

\* The calls of Shutdown whose send on doneCh was received.
Served == {c \in Callers : shutdownPc[c] \in {"recv", "returned"}}

\* C19: a call of Shutdown returns only after loop has closed the database
\* (and closed the call's ch); once the database is closed loop is past the
\* select for good, at close(ch), at its return or returned, so that it
\* makes no further purge or value-log GC; and at most one call of Shutdown
\* ever gets its send on doneCh received, the one loop holds the ch of, so
\* that every other call stays blocked in its send.
C19_ShutdownOnce ==
    /\ \A c \in Callers :
          shutdownPc[c] = "returned" =>
              /\ db = "closed"
              /\ chClosed[c]
              /\ loopPc \in {"return", "returned"}
    /\ db = "closed" =>
          /\ loopPc \in {"closeCh", "return", "returned"}
          /\ gcs = purges
    /\ Cardinality(Served) <= 1
    /\ Served = IF loopCh = 0 THEN {} ELSE {loopCh}
    /\ Served = {} <=> loopPc \in {"start", "select", "gc"}

\* One call of Shutdown has returned, loop has returned after a tick, and a
\* second call of Shutdown is blocked in its send on doneCh.
C19_Witness ==
    /\ loopPc = "returned"
    /\ ticker = "stopped"
    /\ purges >= 1
    /\ \E c, d \in Callers :
          /\ shutdownPc[c] = "returned"
          /\ shutdownPc[d] = "send"

====
